---- MODULE Spec2Model ----
(***************************************************************************)
(* Model of the offer-combination trading-route optimizer of camveo        *)
(* (src/src/lib/trading-calculator.ts).                                    *)
(*                                                                         *)
(* Numbers: prices, amounts and the target are non-negative integers (a    *)
(* fixed-point unit); quotients (averagePrice, efficiency, savings) are    *)
(* exact rationals [num, den] in lowest terms.  Every arithmetic result    *)
(* passes through fl, the rounding of binary floating point to a           *)
(* significand of `precision' bits; precision = 0 stands for arithmetic    *)
(* without rounding, which all specifications but SpecFloat use.           *)
(* Strings that the code inspects (bank names, pay types, the bank query)  *)
(* are sequences of one-character strings.                                 *)
(*                                                                         *)
(* These specifications share the actions and differ in the inputs:        *)
(*   Spec      short catalogs, every target and maxOffers, both directions *)
(*   SpecRank  longer catalogs, for the ranking of many routes             *)
(*   SpecBank  catalogs with varied payment methods, for the bank filter   *)
(* SpecLister is one call of getAvailableBanks on such a catalog.          *)
(* SpecScenario is the calculation on catalogs priced 36.0 and 36.5.       *)
(* SpecComponent is the TradingCalculator component around the calculator. *)
(* SpecRetry is one call of retryRequest.                                  *)
(* SpecProxy is one request for prices, from the client to Binance.        *)
(* SpecP2PData is the useP2PData hook with overlapping runs of fetchData.  *)
(* SpecFloat is the calculation on short catalogs in rounded arithmetic;   *)
(* the significand has FloatBits bits where the binary64 of the code has   *)
(* 53.                                                                     *)
(***************************************************************************)
EXTENDS Integers, Sequences, FiniteSets, TLC

VARIABLES offers, targetAmount, maxOffers, bankFilter,
          pc, filteredOffers, sortedOffers, combinations, result, error,
          availableBanks, precision, combinationsOfSize,
          component, retry, proxy, p2pData

\* the variables of a call of the calculator
calcVars == <<offers, targetAmount, maxOffers, bankFilter,
              pc, filteredOffers, sortedOffers, combinations, result, error,
              availableBanks, precision, combinationsOfSize>>

\* the variables of the application around the calculator
appVars == <<component, retry, proxy, p2pData>>

vars == <<calcVars, appVars>>

(***************************************************************************)
(* Bounds of the model.                                                    *)
(***************************************************************************)
MaxN == 2
MaxPrice == 2
MaxAmount == 2
MaxTarget == 3
MaxRouteOffers == 2
MaxRankN == 3
MaxBankN == 2
MaxBankPrice == 2
FloatBits == 5
MaxRetries == 3
MaxRuns == 2

(***************************************************************************)
(* Exact rational arithmetic.                                              *)
(***************************************************************************)
Abs(n) == IF n < 0 THEN -n ELSE n

Min(a, b) == IF a <= b THEN a ELSE b

RECURSIVE GCD(_, _)
GCD(a, b) == IF b = 0 THEN a ELSE GCD(b, a % b)

\* n / d with d # 0, in lowest terms with a positive denominator
Rat(n, d) ==
  LET g == GCD(Abs(n), Abs(d))
      s == IF d < 0 THEN -1 ELSE 1
  IN [num |-> (s * n) \div g, den |-> (s * d) \div g]

FromInt(n) == [num |-> n, den |-> 1]

RatMul(a, b) == Rat(a.num * b.num, a.den * b.den)

RatDiv(a, b) == Rat(a.num * b.den, a.den * b.num)

RatSub(a, b) == Rat(a.num * b.den - b.num * a.den, a.den * b.den)

RatLeq(a, b) == a.num * b.den <= b.num * a.den

RatLess(a, b) == a.num * b.den < b.num * a.den

\* the sign of a rational, as a comparator result
RatSign(a) == IF a.num < 0 THEN -1 ELSE IF a.num > 0 THEN 1 ELSE 0

(***************************************************************************)
(* Rounded arithmetic: a JavaScript number is a binary floating point      *)
(* value, and every *, /, + and - rounds its exact result to the nearest   *)
(* value with a significand of p bits, ties to the even significand.       *)
(***************************************************************************)
RECURSIVE RoundPos(_, _, _)
RoundPos(n, d, p) ==
  IF n >= (2 ^ p) * d THEN RatMul(FromInt(2), RoundPos(n, 2 * d, p))
  ELSE IF n < (2 ^ (p - 1)) * d THEN RatDiv(RoundPos(2 * n, d, p), FromInt(2))
  ELSE LET q == n \div d
           r == n % d
       IN FromInt(IF 2 * r < d THEN q
                  ELSE IF 2 * r > d THEN q + 1
                  ELSE IF q % 2 = 0 THEN q ELSE q + 1)

Round(x, p) ==
  IF x.num = 0 THEN x
  ELSE IF x.num < 0 THEN RatSub(FromInt(0), RoundPos(-x.num, x.den, p))
  ELSE RoundPos(x.num, x.den, p)

\* the result of one arithmetic operation whose exact value is x
fl(x) == IF precision = 0 THEN x ELSE Round(x, precision)

\* the same for an exact value that is an integer; a rounded integer of at
\* least p bits is an integer again
flInt(n) == fl(FromInt(n)).num

(***************************************************************************)
(* Strings.                                                                *)
(***************************************************************************)
\* String.prototype.toLowerCase
toLowerCase(s) ==
  [i \in 1..Len(s) |-> IF s[i] = "A" THEN "a" ELSE IF s[i] = "B" THEN "b" ELSE s[i]]

\* String.prototype.includes
includes(s, q) ==
  \E i \in 0..(Len(s) - Len(q)) : SubSeq(s, i + 1, i + Len(q)) = q

(***************************************************************************)
(* Array.prototype.sort is a stable sort: an element goes behind the       *)
(* elements the comparator puts strictly before it and behind the equal    *)
(* elements that precede it in the input.  It is computed by insertion,    *)
(* element after element in input order.                                   *)
(***************************************************************************)
\* the comparator of both price sorts
ComparePriceFlipped(a, b) ==
  IF a.tradeType = "BUY" THEN b.price - a.price ELSE a.price - b.price

ComparePrice(a, b) ==
  IF a.tradeType = "BUY" THEN a.price - b.price ELSE b.price - a.price

\* x goes behind every element that the comparator does not put after it
RECURSIVE InsertByPrice(_, _)
InsertByPrice(sorted, x) ==
  IF sorted = << >> THEN <<x>>
  ELSE IF ComparePrice(Head(sorted), x) <= 0
         THEN <<Head(sorted)>> \o InsertByPrice(Tail(sorted), x)
         ELSE <<x>> \o sorted

RECURSIVE SortPrefixByPrice(_, _)
SortPrefixByPrice(s, k) ==
  IF k = 0 THEN << >> ELSE InsertByPrice(SortPrefixByPrice(s, k - 1), s[k])

SortByPrice(s) == SortPrefixByPrice(s, Len(s))

\* `list.sort(cmp)`: the array itself is put in order
sortInPlace(list) == [array |-> SortByPrice(list), sorted |-> SortByPrice(list)]

\* `[...list].sort(cmp)`: the spread makes a new array and the sort orders
\* that one; array is what `list` holds afterwards
sortCopy(list) == [array |-> list, sorted |-> SortByPrice(list)]

(***************************************************************************)
(* calculateRouteFromOffers                                                *)
(***************************************************************************)
NullRoute == [null |-> TRUE]

useAmountUncapped(remainingAmount, offer) == remainingAmount

useAmountWhole(remainingAmount, offer) == offer.amount

useAmount(remainingAmount, offer) == Min(remainingAmount, offer.amount)

offerCostWhole(use, offer) == flInt(offer.amount * offer.price)

offerCost(use, offer) == flInt(use * offer.price)

\* the loop without the break of line 177
RECURSIVE UseOffersNoBreak(_, _, _)
UseOffersNoBreak(sorted, i, acc) ==
  IF i > Len(sorted) THEN acc
  ELSE LET offer == sorted[i]
           use == useAmount(acc.remainingAmount, offer)
       IN UseOffersNoBreak(sorted, i + 1,
            [remainingAmount |-> flInt(acc.remainingAmount - use),
             usedOffers |-> Append(acc.usedOffers, [offer EXCEPT !.amount = use]),
             totalCost |-> flInt(acc.totalCost + offerCost(use, offer))])

\* The greedy loop over the price-sorted combination, from position i on.
\* acc = [remainingAmount, usedOffers, totalCost]
RECURSIVE UseOffers(_, _, _)
UseOffers(sorted, i, acc) ==
  IF i > Len(sorted) \/ acc.remainingAmount <= 0 THEN acc
  ELSE LET offer == sorted[i]
           use == useAmount(acc.remainingAmount, offer)
       IN UseOffers(sorted, i + 1,
            [remainingAmount |-> flInt(acc.remainingAmount - use),
             usedOffers |-> Append(acc.usedOffers, [offer EXCEPT !.amount = use]),
             totalCost |-> flInt(acc.totalCost + offerCost(use, offer))])

routeEfficiencyInverted(optimalPrice, averagePrice) ==
  fl(RatMul(fl(RatDiv(averagePrice, FromInt(optimalPrice))), FromInt(100)))

routeEfficiency(optimalPrice, averagePrice) ==
  fl(RatMul(fl(RatDiv(FromInt(optimalPrice), averagePrice)), FromInt(100)))

\* (worstPrice - averagePrice) * targetAmount, of lines 88 and 199
priceGap(worstPrice, averagePrice, target) ==
  fl(RatMul(fl(RatSub(FromInt(worstPrice), averagePrice)), FromInt(target)))

calculateRouteFromOffers(combination, target) ==
  LET sorted == SortByPrice(combination)
      fin == UseOffers(sorted, 1,
               [remainingAmount |-> target, usedOffers |-> <<>>, totalCost |-> 0])
      averagePrice == fl(Rat(fin.totalCost, target))
      worstPrice == sorted[Len(sorted)].price
      optimalPrice == sorted[1].price
  IN IF fin.remainingAmount > 0 THEN NullRoute
     ELSE [offers |-> fin.usedOffers,
           totalAmount |-> target,
           totalCost |-> fin.totalCost,
           averagePrice |-> averagePrice,
           savings |-> priceGap(worstPrice, averagePrice, target),
           efficiency |-> routeEfficiency(optimalPrice, averagePrice)]

(***************************************************************************)
(* generateCombinations and findOfferCombinations                          *)
(***************************************************************************)
RECURSIVE generateCombinations(_, _)
RECURSIVE CombinationsFrom(_, _, _)

\* the loop with remainingOffers = offers.slice(i): the first offer stays in
RECURSIVE CombinationsFromRepeating(_, _, _)
CombinationsFromRepeating(list, size, i) ==
  IF i > Len(list) - size THEN <<>>
  ELSE LET firstOffer == list[i + 1]
           remainingOffers == SubSeq(list, i + 1, Len(list))
           subCombinations == generateCombinations(remainingOffers, size - 1)
       IN [k \in 1..Len(subCombinations) |-> <<firstOffer>> \o subCombinations[k]]
          \o CombinationsFromRepeating(list, size, i + 1)

\* the loop with the bound i < offers.length - size
RECURSIVE CombinationsFromShort(_, _, _)
CombinationsFromShort(list, size, i) ==
  IF i >= Len(list) - size THEN <<>>
  ELSE LET firstOffer == list[i + 1]
           remainingOffers == SubSeq(list, i + 2, Len(list))
           subCombinations == generateCombinations(remainingOffers, size - 1)
       IN [k \in 1..Len(subCombinations) |-> <<firstOffer>> \o subCombinations[k]]
          \o CombinationsFromShort(list, size, i + 1)

\* the loop of generateCombinations from index i (0-based, as in the code)
CombinationsFrom(list, size, i) ==
  IF i > Len(list) - size THEN <<>>
  ELSE LET firstOffer == list[i + 1]
           remainingOffers == SubSeq(list, i + 2, Len(list))
           subCombinations == generateCombinations(remainingOffers, size - 1)
       IN [k \in 1..Len(subCombinations) |-> <<firstOffer>> \o subCombinations[k]]
          \o CombinationsFrom(list, size, i + 1)

generateCombinations(list, size) ==
  IF size = 1 THEN [i \in 1..Len(list) |-> <<list[i]>>]
  ELSE CombinationsFrom(list, size, 0)

\* the routes of a list of combinations, nulls dropped, order kept
RECURSIVE RoutesOf(_, _)
RoutesOf(combs, target) ==
  IF combs = <<>> THEN <<>>
  ELSE LET route == calculateRouteFromOffers(Head(combs), target)
       IN (IF route = NullRoute THEN <<>> ELSE <<route>>)
          \o RoutesOf(Tail(combs), target)

maxSizeExclusive(max, list) == Min(max, Len(list)) - 1

maxSize(max, list) == Min(max, Len(list))

RECURSIVE CombinationsOfSizes(_, _, _, _)
CombinationsOfSizes(list, target, size, last) ==
  IF size > last THEN <<>>
  ELSE RoutesOf(generateCombinations(list, size), target)
       \o CombinationsOfSizes(list, target, size + 1, last)

findOfferCombinations(list, target, max) ==
  CombinationsOfSizes(list, target, 1, maxSize(max, list))

\* the values of combinationsOfSize (line 116) in the order of the
\* iterations of the loop of line 115
combinationsBySize(list, max) ==
  [size \in 1..maxSize(max, list) |-> generateCombinations(list, size)]

(***************************************************************************)
(* The bank filter of calculateBestTradingRoute                            *)
(***************************************************************************)
\* `if (bankFilter)`: undefined and the empty string are both falsy; the
\* model writes both as the empty sequence
Truthy(q) == Len(q) > 0

methodMatchesCaseSensitive(method, q) ==
  \/ /\ "payBank" \in DOMAIN method
     /\ includes(method.payBank, q)
  \/ includes(method.payType, q)

methodMatches(method, q) ==
  \/ /\ "payBank" \in DOMAIN method
     /\ includes(toLowerCase(method.payBank), toLowerCase(q))
  \/ includes(toLowerCase(method.payType), toLowerCase(q))

offerMatches(offer, q) ==
  \E m \in 1..Len(offer.paymentMethods) : methodMatches(offer.paymentMethods[m], q)

filterByBank(list, q) == SelectSeq(list, LAMBDA offer : offerMatches(offer, q))

(***************************************************************************)
(* Ranking and the result envelope                                         *)
(***************************************************************************)
CompareEfficiency(a, b) == RatSign(RatSub(b.efficiency, a.efficiency))

\* an insertion that puts x in front of the elements equal to it
RECURSIVE InsertBeforeEqual(_, _)
InsertBeforeEqual(sorted, x) ==
  IF sorted = << >> THEN <<x>>
  ELSE IF CompareEfficiency(Head(sorted), x) < 0
         THEN <<Head(sorted)>> \o InsertBeforeEqual(Tail(sorted), x)
         ELSE <<x>> \o sorted

RECURSIVE InsertByEfficiency(_, _)
InsertByEfficiency(sorted, x) ==
  IF sorted = << >> THEN <<x>>
  ELSE IF CompareEfficiency(Head(sorted), x) <= 0
         THEN <<Head(sorted)>> \o InsertByEfficiency(Tail(sorted), x)
         ELSE <<x>> \o sorted

RECURSIVE SortPrefixByEfficiency(_, _)
SortPrefixByEfficiency(routes, k) ==
  IF k = 0 THEN << >>
  ELSE InsertByEfficiency(SortPrefixByEfficiency(routes, k - 1), routes[k])

SortByEfficiency(routes) == SortPrefixByEfficiency(routes, Len(routes))

\* Array.prototype.slice(from, to), 0-based, `to` exclusive
slice(s, from, to) == SubSeq(s, from + 1, Min(to, Len(s)))

alternativesTwo(ranked) == slice(ranked, 1, 3)

alternatives(ranked) == slice(ranked, 1, 4)

\* the summary with the savings of bestRoute in place of totalSavings
makeResultRouteSavings(ranked, sorted, target) ==
  LET bestRoute == ranked[1]
  IN [targetAmount |-> target,
      bestRoute |-> bestRoute,
      alternativeRoutes |-> alternatives(ranked),
      summary |-> [totalOffers |-> Len(bestRoute.offers),
                   averagePrice |-> bestRoute.averagePrice,
                   totalCost |-> bestRoute.totalCost,
                   savings |-> bestRoute.savings,
                   efficiency |-> bestRoute.efficiency]]

makeResult(ranked, sorted, target) ==
  LET bestRoute == ranked[1]
      worstPrice == sorted[Len(sorted)].price
      totalSavings == priceGap(worstPrice, bestRoute.averagePrice, target)
  IN [targetAmount |-> target,
      bestRoute |-> bestRoute,
      alternativeRoutes |-> alternatives(ranked),
      summary |-> [totalOffers |-> Len(bestRoute.offers),
                   averagePrice |-> bestRoute.averagePrice,
                   totalCost |-> bestRoute.totalCost,
                   savings |-> totalSavings,
                   efficiency |-> bestRoute.efficiency]]

(***************************************************************************)
(* getAvailableBanks                                                       *)
(***************************************************************************)
\* the UTF-16 code unit of a character
Code(c) == CASE c = "A" -> 65 [] c = "B" -> 66 [] c = "a" -> 97 [] c = "b" -> 98

\* the order of the default comparator of Array.prototype.sort on strings
RECURSIVE StringLess(_, _)
StringLess(s, t) ==
  IF t = << >> THEN FALSE
  ELSE IF s = << >> THEN TRUE
  ELSE IF Code(Head(s)) # Code(Head(t)) THEN Code(Head(s)) < Code(Head(t))
  ELSE StringLess(Tail(s), Tail(t))

\* Set.prototype.add, on a set kept as the sequence of its members in
\* insertion order
setAdd(set, x) ==
  IF \E i \in 1..Len(set) : set[i] = x THEN set ELSE Append(set, x)

\* lines 220-225, for one payment method
addMethod(banks, method) ==
  LET withBank == IF "payBank" \in DOMAIN method /\ Truthy(method.payBank)
                    THEN setAdd(banks, method.payBank) ELSE banks
  IN IF Truthy(method.payType) THEN setAdd(withBank, method.payType) ELSE withBank

RECURSIVE addMethods(_, _, _)
addMethods(banks, methods, m) ==
  IF m > Len(methods) THEN banks
  ELSE addMethods(addMethod(banks, methods[m]), methods, m + 1)

RECURSIVE addOffers(_, _, _)
addOffers(banks, list, i) ==
  IF i > Len(list) THEN banks
  ELSE addOffers(addMethods(banks, list[i].paymentMethods, 1), list, i + 1)

RECURSIVE InsertString(_, _)
InsertString(sorted, x) ==
  IF sorted = << >> THEN <<x>>
  ELSE IF StringLess(x, Head(sorted)) THEN <<x>> \o sorted
  ELSE <<Head(sorted)>> \o InsertString(Tail(sorted), x)

RECURSIVE SortStringsPrefix(_, _)
SortStringsPrefix(s, k) ==
  IF k = 0 THEN << >> ELSE InsertString(SortStringsPrefix(s, k - 1), s[k])

getAvailableBanks(list) ==
  LET banks == addOffers(<< >>, list, 1)
  IN SortStringsPrefix(banks, Len(banks))

(***************************************************************************)
(* The state machine: one call of calculateBestTradingRoute.               *)
(* pc: "call" -> "filtered" -> "found" -> "returned", or "thrown".         *)
(***************************************************************************)
NoResult == [null |-> TRUE]

NoError == [null |-> TRUE]

Error(msg) == [message |-> msg]

\* FilterOffers without the empty-catalog check of lines 39-41
FilterOffersNoEmptyCheck ==
  /\ pc = "call"
  /\ LET filtered == IF Truthy(bankFilter) THEN filterByBank(offers, bankFilter)
                                           ELSE offers
     IN IF Truthy(bankFilter) /\ Len(filtered) = 0
          THEN /\ pc' = "thrown"
               /\ error' = Error(<<"No offers available for bank: ", bankFilter>>)
               /\ filteredOffers' = filtered
          ELSE /\ pc' = "filtered"
               /\ filteredOffers' = filtered
               /\ UNCHANGED error
  /\ UNCHANGED <<offers, targetAmount, maxOffers, bankFilter, precision,
                 sortedOffers, combinations, result, availableBanks, combinationsOfSize>>
  /\ UNCHANGED appVars

\* FilterOffers without the empty-filter check of lines 54-56
FilterOffersNoMatchCheck ==
  /\ pc = "call"
  /\ IF Len(offers) = 0
       THEN /\ pc' = "thrown"
            /\ error' = Error(<<"No offers available">>)
            /\ UNCHANGED filteredOffers
       ELSE /\ pc' = "filtered"
            /\ filteredOffers' = (IF Truthy(bankFilter) THEN filterByBank(offers, bankFilter)
                                                        ELSE offers)
            /\ UNCHANGED error
  /\ UNCHANGED <<offers, targetAmount, maxOffers, bankFilter, precision,
                 sortedOffers, combinations, result, availableBanks, combinationsOfSize>>
  /\ UNCHANGED appVars

\* lines 39-57: the empty-catalog check and the bank filter
FilterOffers ==
  /\ pc = "call"
  /\ IF Len(offers) = 0
       THEN /\ pc' = "thrown"
            /\ error' = Error(<<"No offers available">>)
            /\ UNCHANGED filteredOffers
       ELSE LET filtered == IF Truthy(bankFilter) THEN filterByBank(offers, bankFilter)
                                                  ELSE offers
            IN IF Truthy(bankFilter) /\ Len(filtered) = 0
                 THEN /\ pc' = "thrown"
                      /\ error' = Error(<<"No offers available for bank: ", bankFilter>>)
                      /\ filteredOffers' = filtered
                 ELSE /\ pc' = "filtered"
                      /\ filteredOffers' = filtered
                      /\ UNCHANGED error
  /\ UNCHANGED <<offers, targetAmount, maxOffers, bankFilter, precision,
                 sortedOffers, combinations, result, availableBanks, combinationsOfSize>>
  /\ UNCHANGED appVars

\* lines 59-77: the price sort and the search of the combinations
\* Without a bank filter filteredOffers is the caller's array itself (line
\* 44), so what the sort leaves in that array is what the caller sees.
FindRoutes ==
  /\ pc = "filtered"
  /\ LET s == sortCopy(filteredOffers)
         sorted == s.sorted
         found == findOfferCombinations(sorted, targetAmount, maxOffers)
     IN /\ sortedOffers' = sorted
        /\ filteredOffers' = s.array
        /\ offers' = (IF Truthy(bankFilter) THEN offers ELSE s.array)
        /\ combinations' = found
        /\ combinationsOfSize' = combinationsBySize(sorted, maxOffers)
        /\ IF Len(found) = 0
             THEN /\ pc' = "thrown"
                  /\ error' = Error(<<"No combination found for ", targetAmount, " USDT">>)
             ELSE /\ pc' = "found"
                  /\ UNCHANGED error
  /\ UNCHANGED <<targetAmount, maxOffers, bankFilter, precision, result, availableBanks>>
  /\ UNCHANGED appVars

\* lines 79-101: the ranking by efficiency and the result
RankRoutes ==
  /\ pc = "found"
  /\ LET ranked == SortByEfficiency(combinations)
     IN /\ combinations' = ranked
        /\ result' = makeResult(ranked, sortedOffers, targetAmount)
  /\ pc' = "returned"
  /\ UNCHANGED <<offers, targetAmount, maxOffers, bankFilter, precision,
                 filteredOffers, sortedOffers, error, availableBanks, combinationsOfSize>>
  /\ UNCHANGED appVars

Next == FilterOffers \/ FindRoutes \/ RankRoutes

\* one call of getAvailableBanks on the catalog
ListBanks ==
  /\ pc = "call"
  /\ availableBanks' = getAvailableBanks(offers)
  /\ pc' = "listed"
  /\ UNCHANGED <<offers, targetAmount, maxOffers, bankFilter, precision,
                 filteredOffers, sortedOffers, combinations, result, error,
                 combinationsOfSize>>
  /\ UNCHANGED appVars

NextLister == ListBanks

(***************************************************************************)
(* Inputs.  A catalog holds offers of one direction (the callers pass the  *)
(* BUY list or the SELL list); advertiser identifies the offer.            *)
(***************************************************************************)
DefaultMethods == << [payType |-> <<"a", "b">>] >>

MethodLists ==
  { << >>,
    << [payType |-> <<"a", "b">>] >>,
    << [payType |-> <<"b">>, payBank |-> <<"A", "b">>] >>,
    << [payType |-> <<"a">>], [payType |-> <<"b">>, payBank |-> <<"B", "A">>] >> }

BankQueries == { << >>, <<"a">>, <<"A", "B">>, <<"b", "a">>, <<"B", "B">> }

Catalogs(maxLen, prices, amounts, methodLists, tradeTypes) ==
  UNION { { [i \in 1..n |-> [price |-> f[i].price,
                             amount |-> f[i].amount,
                             paymentMethods |-> f[i].paymentMethods,
                             advertiser |-> i,
                             tradeType |-> t]] :
              f \in [1..n -> [price : prices, amount : amounts,
                              paymentMethods : methodLists]],
              t \in tradeTypes }
          : n \in 0..maxLen }

(***************************************************************************)
(* The TradingCalculator component (src/unnamed/part_003).                 *)
(* component holds its props (prices, loading), its state (targetAmount,   *)
(* selectedBank, showCalculator), the values of its two memos and what the *)
(* last render put on the screen:                                          *)
(*   "skeleton"  the loading placeholder of lines 61-75                    *)
(*   "form"      the entry form of lines 93-141                            *)
(*   "result"    the route figures of lines 191-346                        *)
(*   "unable"    'Unable to calculate trading route' of lines 348-357      *)
(*   "crashed"   an exception left the render                              *)
(***************************************************************************)
Null == [null |-> TRUE]

\* a local of the code, evaluated once where it is declared: the one member
\* of the singleton S
Only(S) == CHOOSE x \in S : TRUE

\* a whole call of calculateBestTradingRoute: what it throws or returns
calculateBestTradingRoute(list, target, max, bank) ==
  IF Len(list) = 0
    THEN [threw |-> TRUE, error |-> Error(<<"No offers available">>)]
    ELSE LET filtered == IF Truthy(bank) THEN filterByBank(list, bank) ELSE list
         IN IF Truthy(bank) /\ Len(filtered) = 0
              THEN [threw |-> TRUE,
                    error |-> Error(<<"No offers available for bank: ", bank>>)]
              ELSE Only({ IF Len(found) = 0
                            THEN [threw |-> TRUE,
                                  error |-> Error(<<"No combination found for ",
                                                    target, " USDT">>)]
                            ELSE [threw |-> FALSE,
                                  value |-> Only({ makeResult(ranked, sorted, target) :
                                                   ranked \in {SortByEfficiency(found)} })]
                          : <<sorted, found>> \in
                              { <<s, findOfferCombinations(s, target, max)>> :
                                  s \in {sortCopy(filtered).sorted} } })

NaN == [nan |-> TRUE, value |-> 0]

isNaN(x) == x.nan

Digits == {"0", "1", "2", "3", "9"}

DigitValue(c) ==
  CASE c = "0" -> 0 [] c = "1" -> 1 [] c = "2" -> 2 [] c = "3" -> 3 [] c = "9" -> 9

\* the value of the longest run of digits of s from position i on
RECURSIVE ParseDigits(_, _, _)
ParseDigits(s, i, acc) ==
  IF i > Len(s) \/ s[i] \notin Digits THEN [value |-> acc, next |-> i]
  ELSE ParseDigits(s, i + 1, 10 * acc + DigitValue(s[i]))

\* parseFloat on strings of digits, signs and other characters: an optional
\* sign, then the longest run of digits; NaN when there is no digit; what
\* follows the digits is ignored
parseFloat(s) ==
  LET signed == Len(s) >= 1 /\ s[1] \in {"-", "+"}
      start == IF signed THEN 2 ELSE 1
      digits == ParseDigits(s, start, 0)
  IN IF digits.next = start THEN NaN
     ELSE [nan |-> FALSE,
           value |-> IF signed /\ s[1] = "-" THEN -digits.value ELSE digits.value]

\* the memo of lines 32-49 without its try and catch
calculationResultNoCatch(c) ==
  IF ~c.showCalculator \/ c.loading \/ Len(c.prices) = 0
    THEN [value |-> Null, escaped |-> FALSE]
    ELSE LET amount == parseFloat(c.targetAmount)
         IN IF isNaN(amount) \/ amount.value <= 0
              THEN [value |-> Null, escaped |-> FALSE]
              ELSE Only({ IF call.threw THEN [value |-> Null, escaped |-> TRUE]
                          ELSE [value |-> call.value, escaped |-> FALSE]
                          : call \in {calculateBestTradingRoute(c.prices, amount.value,
                                                                5, c.selectedBank)} })

\* the memo of lines 32-49: its value, and whether an exception left it
calculationResult(c) ==
  IF ~c.showCalculator \/ c.loading \/ Len(c.prices) = 0
    THEN [value |-> Null, escaped |-> FALSE]
    ELSE LET amount == parseFloat(c.targetAmount)
         IN IF isNaN(amount) \/ amount.value <= 0
              THEN [value |-> Null, escaped |-> FALSE]
              ELSE Only({ IF call.threw THEN [value |-> Null, escaped |-> FALSE]
                          ELSE [value |-> call.value, escaped |-> FALSE]
                          : call \in {calculateBestTradingRoute(c.prices, amount.value,
                                                                5, c.selectedBank)} })

\* one render of the component with the props and state of c
render(c) ==
  Only({ [c EXCEPT !.availableBanks = getAvailableBanks(c.prices),
                   !.calculationResult = memo.value,
                   !.escaped = memo.escaped,
                   !.view = IF memo.escaped THEN "crashed"
                            ELSE IF c.loading THEN "skeleton"
                            ELSE IF ~c.showCalculator THEN "form"
                            ELSE IF memo.value # Null THEN "result"
                            ELSE "unable"]
         : memo \in {calculationResult(c)} })

\* the strings the amount field can hold
AmountTexts ==
  { << >>, <<"0">>, <<"-", "1">>, <<"1">>, <<"3">>, <<"2", "x">>, <<"x">>,
    <<"2", "0", "0">> }

\* the catalogs the page can pass as prices
ComponentCatalogs ==
  Catalogs(MaxN, {MaxBankPrice}, {MaxAmount},
           { << [payType |-> <<"a">>] >>,
             << [payType |-> <<"b">>, payBank |-> <<"A", "b">>] >> },
           {"BUY"})

Controls == component.view \in {"form", "result", "unable"}

\* lines 51-53, from either button
handleCalculate ==
  /\ Controls
  /\ component' = render([component EXCEPT !.showCalculator = TRUE])
  /\ UNCHANGED <<calcVars, retry, proxy, p2pData>>

\* lines 55-59
handleReset ==
  /\ component.view \in {"result", "unable"}
  /\ component' = render([component EXCEPT !.showCalculator = FALSE,
                                           !.targetAmount = <<"2", "0", "0">>,
                                           !.selectedBank = << >>])
  /\ UNCHANGED <<calcVars, retry, proxy, p2pData>>

\* the onChange of the amount fields, lines 104 and 152
setTargetAmount ==
  /\ Controls
  /\ \E text \in AmountTexts :
       component' = render([component EXCEPT !.targetAmount = text])
  /\ UNCHANGED <<calcVars, retry, proxy, p2pData>>

\* the onChange of the bank selects, lines 115 and 163: "All Banks" or one
\* of the options listed from availableBanks
setSelectedBank ==
  /\ Controls
  /\ \E k \in 0..Len(component.availableBanks) :
       component' = render([component EXCEPT !.selectedBank =
                              IF k = 0 THEN << >> ELSE component.availableBanks[k]])
  /\ UNCHANGED <<calcVars, retry, proxy, p2pData>>

\* the page renders the component again with other props
receiveProps ==
  /\ component.view # "crashed"
  /\ \E list \in ComponentCatalogs, busy \in BOOLEAN :
       component' = render([component EXCEPT !.prices = list, !.loading = busy])
  /\ UNCHANGED <<calcVars, retry, proxy, p2pData>>

NextComponent ==
  handleCalculate \/ handleReset \/ setTargetAmount \/ setSelectedBank \/ receiveProps

(***************************************************************************)
(* retryRequest (src/unnamed/part_001, lines 156-175).                     *)
(* retry.pc: "loop" at the head of the for loop, "awaiting" while the      *)
(* promise of requestFn is pending, "delay" while the timer of line 171    *)
(* runs, then "returned" or "thrown".  calls counts the invocations of     *)
(* requestFn, pending those not yet settled, failures lists the errors of  *)
(* the failed attempts in order.                                           *)
(***************************************************************************)
RequestValues == {"v1", "v2"}

RequestErrors == {"e1", "e2", "e3"}

\* the test of line 165 as attempt > maxRetries
isLastAttemptLate(attempt, maxRetries) == attempt > maxRetries

\* the test of line 165
isLastAttempt(attempt, maxRetries) == attempt = maxRetries

\* lines 161-163: the loop test and the call of requestFn; line 174 when the
\* loop ends
callRequestFn ==
  /\ retry.pc = "loop"
  /\ IF retry.attempt <= retry.maxRetries
       THEN retry' = [retry EXCEPT !.pc = "awaiting",
                                   !.calls = @ + 1,
                                   !.pending = @ + 1]
       ELSE retry' = [retry EXCEPT !.pc = "thrown",
                                   !.thrown = "Max retries exceeded"]
  /\ UNCHANGED <<calcVars, component, proxy, p2pData>>

\* line 163: the promise resolves and retryRequest returns its value
requestResolves ==
  /\ retry.pc = "awaiting"
  /\ \E v \in RequestValues :
       retry' = [retry EXCEPT !.pc = "returned", !.pending = @ - 1, !.value = v]
  /\ UNCHANGED <<calcVars, component, proxy, p2pData>>

\* lines 164-171: the promise rejects
requestRejects ==
  /\ retry.pc = "awaiting"
  /\ \E e \in RequestErrors :
       IF isLastAttempt(retry.attempt, retry.maxRetries)
         THEN retry' = [retry EXCEPT !.pc = "thrown",
                                     !.pending = @ - 1,
                                     !.failures = Append(@, e),
                                     !.thrown = e]
         ELSE retry' = [retry EXCEPT !.pc = "delay",
                                     !.pending = @ - 1,
                                     !.failures = Append(@, e)]
  /\ UNCHANGED <<calcVars, component, proxy, p2pData>>

\* line 171 and the attempt++ of line 161: the timer fires
delayElapses ==
  /\ retry.pc = "delay"
  /\ retry' = [retry EXCEPT !.pc = "loop", !.attempt = @ + 1]
  /\ UNCHANGED <<calcVars, component, proxy, p2pData>>

NextRetry == callRequestFn \/ requestResolves \/ requestRejects \/ delayElapses

(***************************************************************************)
(* One request for prices: fetchP2PPrices on the client, the POST handler  *)
(* of the /api/p2p route, and the search request to Binance                *)
(* (src/unnamed/part_001).                                                 *)
(* proxy.pc: "client" -> "posted" -> "sent" -> "answered" -> "done", or    *)
(* "posted" -> "answered" when the handler rejects the body.               *)
(***************************************************************************)
\* lines 45 and 205, the same expression on both sides
binanceTradeType(tradeType) == IF tradeType = "BUY" THEN "SELL" ELSE "BUY"

Assets == {"USDT", "BTC", "ETH", "DOGE"}

RowCounts == {0, 1, 20, 21}

\* lines 193-221: the client builds the body and posts it to the route
postToProxy ==
  /\ proxy.pc = "client"
  /\ proxy' = [proxy EXCEPT !.pc = "posted",
                            !.body = [page |-> proxy.page,
                                      rows |-> proxy.rows,
                                      asset |-> proxy.asset,
                                      tradeType |-> binanceTradeType(proxy.tradeType),
                                      fiat |-> proxy.fiat]]
  /\ UNCHANGED <<calcVars, component, retry, p2pData>>

\* lines 10-75: the handler checks the body and sends the search request
POST ==
  /\ proxy.pc = "posted"
  /\ LET body == proxy.body
     IN IF body.asset \notin {"USDT", "BTC", "ETH"}
          THEN proxy' = [proxy EXCEPT !.pc = "answered",
                           !.response = [status |-> 400, error |-> "Invalid asset"]]
        ELSE IF body.tradeType \notin {"BUY", "SELL"}
          THEN proxy' = [proxy EXCEPT !.pc = "answered",
                           !.response = [status |-> 400, error |-> "Invalid trade type"]]
        ELSE IF body.rows < 1 \/ body.rows > 20
          THEN proxy' = [proxy EXCEPT !.pc = "answered",
                           !.response = [status |-> 400, error |-> "Rows"]]
        ELSE proxy' = [proxy EXCEPT !.pc = "sent",
                         !.search = [page |-> body.page,
                                     rows |-> body.rows,
                                     asset |-> body.asset,
                                     tradeType |-> binanceTradeType(body.tradeType),
                                     fiat |-> body.fiat]]
  /\ UNCHANGED <<calcVars, component, retry, p2pData>>

\* lines 77-120: Binance answers, or the fetch fails, and the handler answers
\* the client
answerClient ==
  /\ proxy.pc = "sent"
  /\ \E outcome \in {"ok", "notOk", "unsuccessful", "fetchFailed"} :
       proxy' = [proxy EXCEPT !.pc = "answered",
                   !.response =
                     CASE outcome = "ok" -> [status |-> 200, success |-> TRUE]
                       [] outcome = "unsuccessful" -> [status |-> 400, error |-> "Binance API error"]
                       [] outcome = "notOk" -> [status |-> 500, error |-> "Binance API responded with status"]
                       [] outcome = "fetchFailed" -> [status |-> 500, error |-> "fetch failed"]]
  /\ UNCHANGED <<calcVars, component, retry, p2pData>>

\* lines 223-300: the client returns the list or throws
receiveAnswer ==
  /\ proxy.pc = "answered"
  /\ proxy' = [proxy EXCEPT !.pc = "done",
                 !.outcome = CASE proxy.response.status = 200 -> "returned"
                               [] proxy.response.status = 500 -> "Server error"
                               [] proxy.response.status = 400 -> "Bad request"]
  /\ UNCHANGED <<calcVars, component, retry, p2pData>>

NextProxy == postToProxy \/ POST \/ answerClient \/ receiveAnswer

(***************************************************************************)
(* The useP2PData hook (src/unnamed/part_000).                             *)
(* p2pData holds the state of the hook (prices, buyPrices, sellPrices,     *)
(* bestBuy, bestSell, loading, error) and the runs of fetchData.  A run is *)
(* started by the effect of line 155, by a tick of the interval of line    *)
(* 162 or by refresh, whether or not an earlier run has ended.  Its pc:    *)
(* "idle" -> "allPrices" (await of line 56) -> "delay1" (line 62) ->       *)
(* "buySell" (line 65) -> "delay2" (line 71) -> "best" (line 74) -> "done" *)
(* failed lists the awaits of the run that rejected.                       *)
(***************************************************************************)
Runs == 1..MaxRuns

\* the lists a request can resolve with
PriceLists == { << >>, <<"ad">> }

BestPrices == { [bestBuy |-> Null, bestSell |-> Null],
                [bestBuy |-> [ad |-> 1], bestSell |-> [ad |-> 1]] }

\* the test of lines 87-91 with || in place of &&
noDataAny(allPrices, buySellData) ==
  Len(allPrices) = 0 \/ Len(buySellData.buy) = 0 \/ Len(buySellData.sell) = 0

\* the test of lines 87-91
noData(allPrices, buySellData) ==
  Len(allPrices) = 0 /\ Len(buySellData.buy) = 0 /\ Len(buySellData.sell) = 0

\* lines 43-56: a run starts, up to its first await
startFetchData(r) ==
  /\ p2pData.mounted
  /\ p2pData.runs[r].pc = "idle"
  /\ \A q \in Runs : q < r => p2pData.runs[q].pc # "idle"
  /\ p2pData' = [p2pData EXCEPT
                   !.loading = TRUE,
                   !.error = Null,
                   !.runs[r] = [pc |-> "allPrices",
                                allPrices |-> << >>,
                                buySellData |-> [buy |-> << >>, sell |-> << >>],
                                bestPrices |-> [bestBuy |-> Null, bestSell |-> Null],
                                failed |-> {}]]
  /\ UNCHANGED <<calcVars, component, retry, proxy>>

\* lines 55-62: fetchP2PPrices settles and the first delay starts
allPricesSettles(r) ==
  /\ p2pData.runs[r].pc = "allPrices"
  /\ \/ \E list \in PriceLists :
          p2pData' = [p2pData EXCEPT !.runs[r].pc = "delay1",
                                     !.runs[r].allPrices = list]
     \/ p2pData' = [p2pData EXCEPT !.runs[r].pc = "delay1",
                                   !.runs[r].failed = @ \cup {"allPrices"}]
  /\ UNCHANGED <<calcVars, component, retry, proxy>>

\* lines 62-65: the delay ends and fetchBuySellPrices is called
firstDelayEnds(r) ==
  /\ p2pData.runs[r].pc = "delay1"
  /\ p2pData' = [p2pData EXCEPT !.runs[r].pc = "buySell"]
  /\ UNCHANGED <<calcVars, component, retry, proxy>>

\* lines 64-71: fetchBuySellPrices settles and the second delay starts
buySellSettles(r) ==
  /\ p2pData.runs[r].pc = "buySell"
  /\ \/ \E buy \in PriceLists, sell \in PriceLists :
          p2pData' = [p2pData EXCEPT !.runs[r].pc = "delay2",
                                     !.runs[r].buySellData = [buy |-> buy, sell |-> sell]]
     \/ p2pData' = [p2pData EXCEPT !.runs[r].pc = "delay2",
                                   !.runs[r].failed = @ \cup {"buySell"}]
  /\ UNCHANGED <<calcVars, component, retry, proxy>>

\* lines 71-74: the delay ends and getBestPrices is called
secondDelayEnds(r) ==
  /\ p2pData.runs[r].pc = "delay2"
  /\ p2pData' = [p2pData EXCEPT !.runs[r].pc = "best"]
  /\ UNCHANGED <<calcVars, component, retry, proxy>>

\* lines 79-101: the run stores what it has
stored(data, run) ==
  [data EXCEPT
     !.prices = run.allPrices,
     !.buyPrices = run.buySellData.buy,
     !.sellPrices = run.buySellData.sell,
     !.bestBuy = run.bestPrices.bestBuy,
     !.bestSell = run.bestPrices.bestSell,
     !.error = IF noData(run.allPrices, run.buySellData)
                 THEN [message |-> "Unable to fetch any P2P data. Please try again later."]
                 ELSE Null,
     !.loading = FALSE]

\* lines 73-101: getBestPrices settles and the run ends
finishFetchData(r) ==
  /\ p2pData.runs[r].pc = "best"
  /\ LET run == p2pData.runs[r]
     IN \/ \E best \in BestPrices :
             LET end == [run EXCEPT !.pc = "done", !.bestPrices = best]
             IN p2pData' = [stored(p2pData, end) EXCEPT !.runs[r] = end]
        \/ LET end == [run EXCEPT !.pc = "done", !.failed = @ \cup {"best"}]
           IN p2pData' = [stored(p2pData, end) EXCEPT !.runs[r] = end]
  /\ UNCHANGED <<calcVars, component, retry, proxy>>

NextP2PData ==
  \E r \in Runs :
    \/ startFetchData(r)
    \/ allPricesSettles(r)
    \/ firstDelayEnds(r)
    \/ buySellSettles(r)
    \/ secondDelayEnds(r)
    \/ finishFetchData(r)

\* the parts of the application that a specification leaves out
ComponentIdle == component = [mounted |-> FALSE]

RetryIdle == retry = [pc |-> "idle"]

ProxyIdle == proxy = [pc |-> "idle"]

P2PDataIdle == p2pData = [mounted |-> FALSE]

\* the application is not running
AppIdle == ComponentIdle /\ RetryIdle /\ ProxyIdle /\ P2PDataIdle

InitLocals ==
  /\ pc = "call"
  /\ filteredOffers = << >>
  /\ sortedOffers = << >>
  /\ combinations = << >>
  /\ result = NoResult
  /\ error = NoError
  /\ availableBanks = << >>
  /\ combinationsOfSize = << >>

Init ==
  /\ offers \in Catalogs(MaxN, 1..MaxPrice, 1..MaxAmount, {DefaultMethods}, {"BUY", "SELL"})
  /\ targetAmount \in 1..MaxTarget
  /\ maxOffers \in 1..MaxRouteOffers
  /\ bankFilter \in { << >>, <<"B">> }
  /\ precision = 0
  /\ InitLocals
  /\ AppIdle

InitBank ==
  /\ offers \in Catalogs(MaxBankN, 1..MaxBankPrice, {MaxAmount}, MethodLists, {"BUY"})
  /\ targetAmount \in {1, MaxTarget}
  /\ maxOffers = MaxRouteOffers
  /\ bankFilter \in BankQueries
  /\ precision = 0
  /\ InitLocals
  /\ AppIdle

\* longer catalogs, for the ranking: one target and one maxOffers
InitRank ==
  /\ offers \in Catalogs(MaxRankN, 1..MaxPrice, 1..MaxAmount, {DefaultMethods}, {"BUY", "SELL"})
  /\ targetAmount = MaxAmount
  /\ maxOffers = MaxRouteOffers
  /\ bankFilter = << >>
  /\ precision = 0
  /\ InitLocals
  /\ AppIdle

\* catalogs with varied payment methods, for getAvailableBanks
InitLister ==
  /\ offers \in Catalogs(MaxBankN, 1..MaxBankPrice, {MaxAmount}, MethodLists, {"BUY"})
  /\ targetAmount = 1
  /\ maxOffers = 1
  /\ bankFilter = << >>
  /\ precision = 0
  /\ InitLocals
  /\ AppIdle

\* the worked example: prices in tenths of a currency unit, so that 36.0 is
\* 360 and 36.5 is 365, and costs are in tenths as well
ScenarioPrices == {360, 365}

ScenarioAmounts == {50, 100}

ScenarioTargets == {120, 200}

ScenarioMaxOffers == {1, 2, 5}

InitScenario ==
  /\ offers \in Catalogs(MaxN, ScenarioPrices, ScenarioAmounts, {DefaultMethods}, {"BUY"})
  /\ targetAmount \in ScenarioTargets
  /\ maxOffers \in ScenarioMaxOffers
  /\ bankFilter = << >>
  /\ precision = 0
  /\ InitLocals
  /\ AppIdle

\* short catalogs in rounded arithmetic: prices just below a power of two,
\* where the product of a price and a small target needs more bits than the
\* significand holds; every offer can fill every target on its own
FloatPrices == (2 ^ (FloatBits - 1) - 5)..(2 ^ (FloatBits - 1))

InitFloat ==
  /\ offers \in Catalogs(MaxN, FloatPrices, {MaxTarget}, {DefaultMethods}, {"BUY", "SELL"})
  /\ targetAmount \in 1..MaxTarget
  /\ maxOffers = MaxRouteOffers
  /\ bankFilter = << >>
  /\ precision = FloatBits
  /\ InitLocals
  /\ AppIdle

\* no call of the calculator as a state machine of its own
CalculatorIdle ==
  /\ offers = << >>
  /\ targetAmount = 1
  /\ maxOffers = 1
  /\ bankFilter = << >>
  /\ precision = 0
  /\ InitLocals

\* the first render: lines 25-27 and the props of the page
InitComponent ==
  /\ \E list \in ComponentCatalogs, busy \in BOOLEAN :
       component = render([mounted |-> TRUE,
                           prices |-> list,
                           loading |-> busy,
                           targetAmount |-> <<"2", "0", "0">>,
                           selectedBank |-> << >>,
                           showCalculator |-> FALSE,
                           availableBanks |-> << >>,
                           calculationResult |-> Null,
                           escaped |-> FALSE,
                           view |-> "form"])
  /\ CalculatorIdle
  /\ RetryIdle /\ ProxyIdle /\ P2PDataIdle

\* a call of retryRequest; its callers pass no maxRetries, so it is 2
InitRetry ==
  /\ \E max \in 1..MaxRetries :
       retry = [pc |-> "loop", attempt |-> 1, maxRetries |-> max,
                calls |-> 0, pending |-> 0, failures |-> << >>,
                value |-> "none", thrown |-> "none"]
  /\ CalculatorIdle
  /\ ComponentIdle /\ ProxyIdle /\ P2PDataIdle

\* a call of fetchP2PPrices(asset, fiat, tradeType, rows, page)
InitProxy ==
  /\ \E asset \in Assets, tradeType \in {"BUY", "SELL"}, rows \in RowCounts :
       proxy = [pc |-> "client", asset |-> asset, fiat |-> "VES",
                tradeType |-> tradeType, rows |-> rows, page |-> 1,
                body |-> Null, search |-> Null, response |-> Null,
                outcome |-> "none"]
  /\ CalculatorIdle
  /\ ComponentIdle /\ RetryIdle /\ P2PDataIdle

\* the hook after its first render, lines 34-40: no run yet
InitP2PData ==
  /\ p2pData = [mounted |-> TRUE,
                prices |-> << >>, buyPrices |-> << >>, sellPrices |-> << >>,
                bestBuy |-> Null, bestSell |-> Null,
                loading |-> TRUE, error |-> Null,
                runs |-> [r \in Runs |-> [pc |-> "idle"]]]
  /\ CalculatorIdle
  /\ ComponentIdle /\ RetryIdle /\ ProxyIdle

Spec == Init /\ [][Next]_vars

SpecP2PData == InitP2PData /\ [][NextP2PData]_vars

SpecProxy == InitProxy /\ [][NextProxy]_vars

SpecRetry == InitRetry /\ [][NextRetry]_vars

SpecComponent == InitComponent /\ [][NextComponent]_vars

SpecFloat == InitFloat /\ [][Next]_vars

SpecScenario == InitScenario /\ [][Next]_vars

SpecLister == InitLister /\ [][NextLister]_vars

SpecRank == InitRank /\ [][Next]_vars

SpecBank == InitBank /\ [][Next]_vars

(***************************************************************************)
(* Vocabulary of the properties, defined from the inputs and the result    *)
(* and independent of the enumeration and ranking operators above.         *)
(***************************************************************************)
Returned == pc = "returned"

AllBuy == \A i \in 1..Len(offers) : offers[i].tradeType = "BUY"

AllSell == \A i \in 1..Len(offers) : offers[i].tradeType = "SELL"

\* bestRoute followed by the alternatives
ReturnedRoutes == <<result.bestRoute>> \o result.alternativeRoutes

RECURSIVE SumAmounts(_)
SumAmounts(list) ==
  IF list = << >> THEN 0 ELSE Head(list).amount + SumAmounts(Tail(list))

\* the members of list at the positions S, in increasing position order
RECURSIVE Pick(_, _, _)
Pick(list, S, i) ==
  IF i > Len(list) THEN << >>
  ELSE (IF i \in S THEN <<list[i]>> ELSE << >>) \o Pick(list, S, i + 1)

\* the combinations of 1..maxOffers offers of the filtered catalog
Subsets == { S \in SUBSET (1..Len(filteredOffers)) :
               Cardinality(S) >= 1 /\ Cardinality(S) <= maxOffers }

RouteOfSubset(S) == calculateRouteFromOffers(Pick(filteredOffers, S, 1), targetAmount)

\* the combinations that fill the target exactly
ValidSubsets == { S \in Subsets : RouteOfSubset(S) # NullRoute }

BestCatalogPrice ==
  CHOOSE p \in { filteredOffers[i].price : i \in 1..Len(filteredOffers) } :
    \A i \in 1..Len(filteredOffers) :
      IF AllBuy THEN p <= filteredOffers[i].price ELSE p >= filteredOffers[i].price

Hundred == FromInt(100)

(***************************************************************************)
(* C1: for an all-BUY catalog, the average price of bestRoute is at most   *)
(* the average price of every valid route (every exact greedy fill of the  *)
(* target over a combination of 1..maxOffers offers).                      *)
(***************************************************************************)
C1_BestRouteIsCheapest ==
  (Returned /\ AllBuy) =>
    \A S \in ValidSubsets :
      RatLeq(result.bestRoute.averagePrice, RouteOfSubset(S).averagePrice)

C3_Capacity ==
  Returned =>
    \A k \in 1..Len(ReturnedRoutes) :
      \A j \in 1..Len(ReturnedRoutes[k].offers) :
        LET e == ReturnedRoutes[k].offers[j]
        IN e.amount <= offers[e.advertiser].amount

\* a returned route that drains one offer and takes part of another
C3_Witness ==
  /\ Returned
  /\ \E k \in 1..Len(ReturnedRoutes) :
       LET es == ReturnedRoutes[k].offers
       IN /\ Len(es) = 2
          /\ es[1].amount = offers[es[1].advertiser].amount
          /\ es[2].amount < offers[es[2].advertiser].amount

(***************************************************************************)
(* C4: for an all-BUY catalog in which a best-priced offer of the filtered *)
(* catalog can fill the target alone, bestRoute is exactly one such offer  *)
(* with amount targetAmount, at efficiency 100.                            *)
(***************************************************************************)
BestPricedCovers(i) ==
  /\ filteredOffers[i].price = BestCatalogPrice
  /\ filteredOffers[i].amount >= targetAmount

C4_SingleOfferShortcut ==
  (Returned /\ AllBuy /\ \E i \in 1..Len(filteredOffers) : BestPricedCovers(i)) =>
    /\ Len(result.bestRoute.offers) = 1
    /\ \E i \in 1..Len(filteredOffers) :
         /\ BestPricedCovers(i)
         /\ result.bestRoute.offers[1] = [filteredOffers[i] EXCEPT !.amount = targetAmount]
    /\ result.bestRoute.efficiency = Hundred

\* the best-priced offer is not the first of the catalog, and its available
\* amount equals the target
C4_Witness ==
  /\ Returned /\ AllBuy
  /\ Len(filteredOffers) >= 2
  /\ filteredOffers[1].price > BestCatalogPrice
  /\ filteredOffers[1].amount >= targetAmount
  /\ \E i \in 2..Len(filteredOffers) :
       BestPricedCovers(i) /\ filteredOffers[i].amount = targetAmount

(***************************************************************************)
(* C5: the efficiency of every valid route is the best price of the whole  *)
(* sorted filtered catalog (index 0) over the route's averagePrice, times  *)
(* 100.                                                                    *)
(***************************************************************************)
C5_EfficiencyAgainstCatalogBest ==
  Returned =>
    \A k \in 1..Len(combinations) :
      combinations[k].efficiency =
        RatMul(RatDiv(FromInt(sortedOffers[1].price), combinations[k].averagePrice),
               Hundred)

(***************************************************************************)
(* C6: for an all-SELL catalog, the average price of bestRoute is at least *)
(* the average price of every valid route, and no alternative has a higher *)
(* average price than bestRoute.                                           *)
(***************************************************************************)
C6_BestRouteSellsHighest ==
  (Returned /\ AllSell) =>
    /\ \A S \in ValidSubsets :
         RatLeq(RouteOfSubset(S).averagePrice, result.bestRoute.averagePrice)
    /\ \A k \in 1..Len(result.alternativeRoutes) :
         RatLeq(result.alternativeRoutes[k].averagePrice, result.bestRoute.averagePrice)

(***************************************************************************)
(* C7: in either direction the efficiency of a returned route is at most   *)
(* 100, it is 100 only when the route's averagePrice is the best price of  *)
(* the catalog, and a route that blends in a worse-priced offer is         *)
(* strictly below 100.                                                     *)
(***************************************************************************)
C7_EfficiencyAtMostHundred ==
  Returned =>
    \A k \in 1..Len(ReturnedRoutes) :
      LET r == ReturnedRoutes[k]
      IN /\ RatLeq(r.efficiency, Hundred)
         /\ r.efficiency = Hundred => r.averagePrice = FromInt(BestCatalogPrice)
         /\ (\E j \in 1..Len(r.offers) : r.offers[j].price # BestCatalogPrice)
              => RatLess(r.efficiency, Hundred)

(***************************************************************************)
(* C8: with V valid routes the result holds bestRoute and exactly          *)
(* min(3, V-1) alternatives; bestRoute's efficiency is at least that of    *)
(* every alternative, the alternatives are in non-increasing efficiency    *)
(* order, and no valid route left out of the result has an efficiency      *)
(* strictly greater than a returned route.                                 *)
(***************************************************************************)
\* the valid combinations, each with its route
ValidRoutes ==
  { p \in { <<S, RouteOfSubset(S)>> : S \in Subsets } : p[2] # NullRoute }

\* how many of the valid combinations vr yield the route r
ValidCount(vr, r) == Cardinality({ p \in vr : p[2] = r })

\* how many returned routes are the route r
ReturnedCount(r) ==
  Cardinality({ k \in 1..Len(ReturnedRoutes) : ReturnedRoutes[k] = r })

\* the valid routes of which at least one copy is not in the result
LeftOut(vr) == { r \in { p[2] : p \in vr } : ValidCount(vr, r) > ReturnedCount(r) }

C8_TopRanked ==
  Returned =>
    LET vr == ValidRoutes
        V == Cardinality(vr)
        alts == result.alternativeRoutes
    IN /\ V >= 1
       /\ Len(alts) = Min(3, V - 1)
       /\ \A k \in 1..Len(ReturnedRoutes) :
            ValidCount(vr, ReturnedRoutes[k]) >= ReturnedCount(ReturnedRoutes[k])
       /\ \A k \in 1..Len(alts) : RatLeq(alts[k].efficiency, result.bestRoute.efficiency)
       /\ \A k \in 1..(Len(alts) - 1) : RatLeq(alts[k + 1].efficiency, alts[k].efficiency)
       /\ \A r \in LeftOut(vr) : \A k \in 1..Len(ReturnedRoutes) :
            RatLeq(r.efficiency, ReturnedRoutes[k].efficiency)

\* more than four valid routes, so that one is left out, the first valid
\* route in enumeration order is not the most efficient one, and the returned
\* routes do not all have the same efficiency
C8_Witness ==
  /\ Returned
  /\ Len(result.alternativeRoutes) = 3
  /\ Cardinality(ValidRoutes) >= 5
  /\ LeftOut(ValidRoutes) # {}
  /\ RatLess(result.alternativeRoutes[3].efficiency, result.bestRoute.efficiency)
  /\ RatLess(findOfferCombinations(sortedOffers, targetAmount, maxOffers)[1].efficiency,
             result.bestRoute.efficiency)

(***************************************************************************)
(* C9: for a non-empty filtered catalog, the call fails with 'No           *)
(* combination found for <targetAmount> USDT' if and only if no subset of  *)
(* at most maxOffers offers has a total available amount >= targetAmount.  *)
(***************************************************************************)
Finished == pc \in {"returned", "thrown"}

NoFeasibleRoute ==
  /\ pc = "thrown"
  /\ error = Error(<<"No combination found for ", targetAmount, " USDT">>)

Reachable(S) == SumAmounts(Pick(filteredOffers, S, 1)) >= targetAmount

SameLetter(c, d) ==
  \/ c = d
  \/ {c, d} = {"a", "A"}
  \/ {c, d} = {"b", "B"}

ContainsIgnoringCase(s, q) ==
  \E i \in 0..(Len(s) - Len(q)) : \A k \in 1..Len(q) : SameLetter(s[i + k], q[k])

ExposesBank(offer, q) ==
  \E m \in 1..Len(offer.paymentMethods) :
    LET method == offer.paymentMethods[m]
    IN \/ ContainsIgnoringCase(method.payType, q)
       \/ "payBank" \in DOMAIN method /\ ContainsIgnoringCase(method.payBank, q)

Advertisers(list) == { list[i].advertiser : i \in 1..Len(list) }

C10_BankFilter ==
  /\ pc \in {"filtered", "found", "returned"} =>
       IF Truthy(bankFilter)
         THEN filteredOffers = Pick(offers, { i \in 1..Len(offers) : ExposesBank(offers[i], bankFilter) }, 1)
         ELSE filteredOffers = offers
  /\ pc \in {"found", "returned"} =>
       Advertisers(sortedOffers) = Advertisers(filteredOffers)
  /\ (Returned /\ Truthy(bankFilter)) =>
       \A k \in 1..Len(ReturnedRoutes) :
         \A j \in 1..Len(ReturnedRoutes[k].offers) :
           ExposesBank(offers[ReturnedRoutes[k].offers[j].advertiser], bankFilter)

\* a query that keeps one offer through a match that differs in letter case
\* only, on a bank name, and drops another offer
C10_Witness ==
  /\ Returned
  /\ Truthy(bankFilter)
  /\ Len(filteredOffers) < Len(offers)
  /\ \E k \in 1..Len(result.bestRoute.offers) :
       LET o == offers[result.bestRoute.offers[k].advertiser]
       IN \A m \in 1..Len(o.paymentMethods) :
            /\ ~ includes(o.paymentMethods[m].payType, bankFilter)
            /\ "payBank" \in DOMAIN o.paymentMethods[m] =>
                 ~ includes(o.paymentMethods[m].payBank, bankFilter)

(***************************************************************************)
(* C11: for a non-empty catalog and a bank query that matches no offer,    *)
(* the call fails with 'No offers available for bank: <query>', before any *)
(* feasibility check: also when targetAmount exceeds the total             *)
(* availability.                                                           *)
(***************************************************************************)
NoOfferExposes ==
  /\ Len(offers) > 0
  /\ Truthy(bankFilter)
  /\ \A i \in 1..Len(offers) : ~ ExposesBank(offers[i], bankFilter)

C11_NoMatchingOffers ==
  (pc # "call" /\ NoOfferExposes) =>
    /\ pc = "thrown"
    /\ error = Error(<<"No offers available for bank: ", bankFilter>>)
    /\ result = NoResult

\* no offer matches and the target is beyond the whole catalog
C11_Witness ==
  /\ pc = "thrown"
  /\ NoOfferExposes
  /\ SumAmounts(offers) < targetAmount

(***************************************************************************)
(* C12: with an empty offers list the call fails with 'No offers           *)
(* available' whatever the target, maxOffers and bank query are; this      *)
(* error comes before the two others, and no result accompanies an error.  *)
(***************************************************************************)
C12_EmptyCatalog ==
  /\ (pc # "call" /\ Len(offers) = 0) =>
       /\ pc = "thrown"
       /\ error = Error(<<"No offers available">>)
  /\ pc = "thrown" => result = NoResult
  /\ result # NoResult => error = NoError

\* an empty catalog called with a bank query
C12_Witness ==
  /\ pc = "thrown"
  /\ Len(offers) = 0
  /\ Truthy(bankFilter)
  /\ error = Error(<<"No offers available">>)

(***************************************************************************)
(* C13: the savings of every returned route are the worst price of the     *)
(* whole sorted filtered catalog (last index) times targetAmount, minus    *)
(* the route's totalCost.                                                  *)
(***************************************************************************)
C13_SavingsAgainstCatalogWorst ==
  Returned =>
    \A k \in 1..Len(ReturnedRoutes) :
      ReturnedRoutes[k].savings =
        FromInt(sortedOffers[Len(sortedOffers)].price * targetAmount
                  - ReturnedRoutes[k].totalCost)

(***************************************************************************)
(* C14: the summary repeats averagePrice, totalCost and efficiency of      *)
(* bestRoute, totalOffers is the number of its offers, and savings is      *)
(* (worst price of the whole filtered catalog - bestRoute.averagePrice)    *)
(* times targetAmount.                                                     *)
(***************************************************************************)
WorstCatalogPrice ==
  CHOOSE p \in { filteredOffers[i].price : i \in 1..Len(filteredOffers) } :
    \A i \in 1..Len(filteredOffers) :
      IF AllBuy THEN p >= filteredOffers[i].price ELSE p <= filteredOffers[i].price

C14_Summary ==
  Returned =>
    /\ result.summary.averagePrice = result.bestRoute.averagePrice
    /\ result.summary.totalCost = result.bestRoute.totalCost
    /\ result.summary.efficiency = result.bestRoute.efficiency
    /\ result.summary.totalOffers = Len(result.bestRoute.offers)
    /\ result.summary.savings =
         RatSub(FromInt(WorstCatalogPrice * targetAmount),
                RatMul(result.bestRoute.averagePrice, FromInt(targetAmount)))

\* the catalog has a worse price than any offer of bestRoute, so the
\* summary's savings differ from the route's own
C14_Witness ==
  /\ Returned
  /\ result.summary.savings # result.bestRoute.savings
  /\ \A j \in 1..Len(result.bestRoute.offers) :
       result.bestRoute.offers[j].price # WorstCatalogPrice

(***************************************************************************)
(* C15: the totalCost of every returned route is the sum of price times    *)
(* consumed amount over its entries, and averagePrice times totalAmount    *)
(* is totalCost.                                                           *)
(***************************************************************************)
RECURSIVE SumCosts(_)
SumCosts(list) ==
  IF list = << >> THEN 0
  ELSE Head(list).price * Head(list).amount + SumCosts(Tail(list))

SortedSubsets == { S \in SUBSET (1..Len(sortedOffers)) :
                     Cardinality(S) >= 1 /\ Cardinality(S) <= maxOffers }

\* the valid combinations as sets of positions of sortedOffers, with their routes
ValidSortedRoutes ==
  { p \in { <<S, calculateRouteFromOffers(Pick(sortedOffers, S, 1), targetAmount)>> :
              S \in SortedSubsets } : p[2] # NullRoute }

MinOf(S) == CHOOSE m \in S : \A x \in S : m <= x

EnumeratedBefore(S, T) ==
  \/ Cardinality(S) < Cardinality(T)
  \/ /\ Cardinality(S) = Cardinality(T)
     /\ S # T
     /\ MinOf((S \ T) \cup (T \ S)) \in S

RankedBefore(p, q) ==
  \/ RatLess(q[2].efficiency, p[2].efficiency)
  \/ /\ p[2].efficiency = q[2].efficiency
     /\ EnumeratedBefore(p[1], q[1])

C16_TieBreak ==
  Returned =>
    LET vr == ValidSortedRoutes
        place(p) == 1 + Cardinality({ q \in vr : RankedBefore(q, p) })
    IN \A k \in 1..Len(ReturnedRoutes) :
         \E p \in vr : place(p) = k /\ p[2] = ReturnedRoutes[k]

\* two different returned routes tie, and the catalog was not given in
\* price order
C16_Witness ==
  /\ Returned
  /\ sortedOffers # filteredOffers
  /\ \E k \in 1..Len(ReturnedRoutes) : \E l \in (k + 1)..Len(ReturnedRoutes) :
       /\ ReturnedRoutes[k].efficiency = ReturnedRoutes[l].efficiency
       /\ ReturnedRoutes[k] # ReturnedRoutes[l]
       /\ Len(ReturnedRoutes[k].offers) = Len(ReturnedRoutes[l].offers)

(***************************************************************************)
(* C17: every returned route has at most maxOffers entries, and its        *)
(* entries are derived from pairwise distinct offers of the filtered       *)
(* catalog.                                                                *)
(***************************************************************************)
C17_DistinctOffers ==
  Returned =>
    \A k \in 1..Len(ReturnedRoutes) :
      LET es == ReturnedRoutes[k].offers
      IN /\ Len(es) <= maxOffers
         /\ \A j \in 1..Len(es) : es[j].advertiser \in Advertisers(filteredOffers)
         /\ \A i, j \in 1..Len(es) : i # j => es[i].advertiser # es[j].advertiser

\* a route that uses maxOffers offers, two or more, out of a longer catalog
C17_Witness ==
  /\ Returned
  /\ maxOffers >= 2
  /\ Len(filteredOffers) > maxOffers
  /\ \E k \in 1..Len(ReturnedRoutes) : Len(ReturnedRoutes[k].offers) = maxOffers

(***************************************************************************)
(* C18: a call, whether it returns or throws, leaves the caller's offers   *)
(* array as it was: the same offers in the same order, with their prices,  *)
(* amounts and payment methods; partial amounts are on the entries of the  *)
(* routes only.                                                            *)
(***************************************************************************)
C18_OffersUnchanged == [][offers' = offers]_vars

\* no bank filter, the price order differs from the caller's order, and a
\* returned route holds a partial amount of an offer
C18_Witness ==
  /\ Returned
  /\ ~ Truthy(bankFilter)
  /\ sortedOffers # offers
  /\ \E k \in 1..Len(ReturnedRoutes) : \E j \in 1..Len(ReturnedRoutes[k].offers) :
       LET e == ReturnedRoutes[k].offers[j]
       IN e.amount < offers[e.advertiser].amount

(***************************************************************************)
(* C19: getAvailableBanks returns a list without duplicates, in ascending  *)
(* order, holding exactly one identifier per payment method of the         *)
(* catalog: its bank name when it has one, otherwise its pay type; an      *)
(* empty catalog gives an empty list.                                      *)
(***************************************************************************)
Identifier(method) ==
  IF "payBank" \in DOMAIN method /\ method.payBank # << >>
    THEN method.payBank ELSE method.payType

Identifiers ==
  UNION { { Identifier(offers[i].paymentMethods[m]) :
              m \in 1..Len(offers[i].paymentMethods) } : i \in 1..Len(offers) }

C19_AvailableBanks ==
  pc = "listed" =>
    /\ \A i, j \in 1..Len(availableBanks) : i # j => availableBanks[i] # availableBanks[j]
    /\ \A i \in 1..(Len(availableBanks) - 1) :
         StringLess(availableBanks[i], availableBanks[i + 1])
    /\ { availableBanks[i] : i \in 1..Len(availableBanks) } = Identifiers
    /\ Len(offers) = 0 => availableBanks = << >>

(***************************************************************************)
(* C20: for the catalog [BUY 36.0 with 100 available, BUY 36.5 with 50     *)
(* available], a target of 120, maxOffers of at least 2 and no bank query, *)
(* the best route takes 100 from the first offer and 20 from the second,   *)
(* costs 4330 and has efficiency 36.0 / (4330/120) * 100, about 99.77 and  *)
(* strictly below 100.  Prices and costs are in tenths: 4330 is 43300.     *)
(***************************************************************************)
ScenarioCall ==
  /\ Len(offers) = 2
  /\ offers[1].price = 360 /\ offers[1].amount = 100 /\ offers[1].tradeType = "BUY"
  /\ offers[2].price = 365 /\ offers[2].amount = 50 /\ offers[2].tradeType = "BUY"
  /\ targetAmount = 120
  /\ maxOffers >= 2
  /\ bankFilter = << >>

C20_Scenario ==
  (ScenarioCall /\ Finished) =>
    /\ Returned
    /\ LET best == result.bestRoute
       IN /\ Len(best.offers) = 2
          /\ best.offers[1].advertiser = 1 /\ best.offers[1].amount = 100
          /\ best.offers[2].advertiser = 2 /\ best.offers[2].amount = 20
          /\ best.totalCost = 43300
          /\ best.efficiency =
               RatMul(RatDiv(FromInt(360), Rat(43300, 120)), FromInt(100))
          /\ RatLess(best.efficiency, Hundred)
          /\ RatLess(Rat(9976, 100), best.efficiency)
          /\ RatLess(best.efficiency, Rat(9978, 100))

C20_Witness == ScenarioCall /\ Returned /\ maxOffers > 2

(***************************************************************************)
(* C21: for a catalog of exactly one offer whose available amount is at    *)
(* least targetAmount, the result is a single-offer bestRoute of amount    *)
(* targetAmount with efficiency exactly 100, savings 0 in both             *)
(* bestRoute.savings and summary.savings, and no alternative routes.       *)
(***************************************************************************)
SingleOfferCall ==
  /\ Len(offers) = 1
  /\ offers[1].amount >= targetAmount
  /\ bankFilter = << >>

C21_SingleOffer ==
  (SingleOfferCall /\ Finished) =>
    /\ Returned
    /\ Len(result.bestRoute.offers) = 1
    /\ result.bestRoute.offers[1].advertiser = 1
    /\ result.bestRoute.offers[1].amount = targetAmount
    /\ result.bestRoute.efficiency = Hundred
    /\ result.bestRoute.savings = FromInt(0)
    /\ result.summary.savings = FromInt(0)
    /\ result.alternativeRoutes = << >>

(***************************************************************************)
(* C22: in every returned route the entries are in best-price order        *)
(* (non-decreasing price for BUY, non-increasing for SELL), every entry    *)
(* but the last consumes the whole available amount of its offer, every    *)
(* entry has a strictly positive amount, and a combination whose total     *)
(* available amount is below targetAmount yields no route: the routes      *)
(* found are as many as the combinations that can fill the target, and     *)
(* each fills it.                                                          *)
(***************************************************************************)
\* the available amount of the catalog offers at the positions S
RECURSIVE Available(_)
Available(S) ==
  IF S = {} THEN 0
  ELSE LET i == CHOOSE j \in S : TRUE
       IN filteredOffers[i].amount + Available(S \ {i})

Searched == pc \in {"found", "returned"} \/ NoFeasibleRoute

PositionOf(offer) == CHOOSE i \in 1..Len(sortedOffers) : sortedOffers[i] = offer

SubsetsOfSize(k) == { S \in SUBSET (1..Len(sortedOffers)) : Cardinality(S) = k }

C23_Combinations ==
  Searched =>
    /\ Len(combinationsOfSize) = Min(maxOffers, Len(sortedOffers))
    /\ \A k \in 1..Len(combinationsOfSize) :
         LET ofSize == combinationsOfSize[k]
         IN /\ Len(ofSize) = Cardinality(SubsetsOfSize(k))
            /\ \A c \in 1..Len(ofSize) :
                 /\ Len(ofSize[c]) = k
                 /\ \A j \in 1..(k - 1) :
                      PositionOf(ofSize[c][j]) < PositionOf(ofSize[c][j + 1])
            /\ \A c, e \in 1..Len(ofSize) : c # e => ofSize[c] # ofSize[e]
            /\ \A S \in SubsetsOfSize(k) :
                 \E c \in 1..Len(ofSize) : ofSize[c] = Pick(sortedOffers, S, 1)

\* two sizes were evaluated on a longer catalog, the second with three
\* combinations or more
C23_Witness ==
  /\ Searched
  /\ Len(combinationsOfSize) >= 2
  /\ Len(sortedOffers) > Len(combinationsOfSize)
  /\ Len(combinationsOfSize[2]) >= 3

(***************************************************************************)
(* C24: for an all-BUY catalog, whenever a single offer of the filtered    *)
(* catalog has an available amount of at least targetAmount, bestRoute     *)
(* consists of exactly one offer, the first in price-sorted order whose    *)
(* available amount is at least targetAmount, whatever multi-offer         *)
(* combinations are feasible as well.                                      *)
(***************************************************************************)
Covering == { i \in 1..Len(filteredOffers) : filteredOffers[i].amount >= targetAmount }

\* the cheapest covering offer; among equal prices the sort is stable and
\* keeps the earliest of the catalog first
FirstCovering ==
  CHOOSE i \in Covering :
    \A j \in Covering :
      \/ filteredOffers[i].price < filteredOffers[j].price
      \/ filteredOffers[i].price = filteredOffers[j].price /\ i <= j

C24_FirstCoveringOffer ==
  (AllBuy /\ Finished /\ pc # "call" /\ Covering # {}) =>
    /\ Returned
    /\ Len(result.bestRoute.offers) = 1
    /\ result.bestRoute.offers[1].advertiser = filteredOffers[FirstCovering].advertiser

(***************************************************************************)
(* C25: the routes of a result are pairwise distinct: no two of bestRoute  *)
(* and the alternativeRoutes consist of the same sequence of (catalog      *)
(* offer, consumed amount) entries.                                        *)
(***************************************************************************)
Entries(route) ==
  [j \in 1..Len(route.offers) |-> <<route.offers[j].advertiser, route.offers[j].amount>>]

C25_DistinctRoutes ==
  Returned =>
    \A k, l \in 1..Len(ReturnedRoutes) :
      k # l => Entries(ReturnedRoutes[k]) # Entries(ReturnedRoutes[l])

(***************************************************************************)
(* C26: in the TradingCalculator component, whenever                       *)
(* calculateBestTradingRoute throws, the exception does not leave the      *)
(* component: calculationResult is null, no route figures are shown and    *)
(* the 'Unable to calculate trading route' state is rendered; and          *)
(* calculationResult is non-null only when the calculator is shown,        *)
(* loading is false, prices is non-empty and the entered amount parses to  *)
(* a number greater than 0.                                                *)
(***************************************************************************)
Mounted == component.mounted

\* the amount field holds a number greater than 0
AmountEntered ==
  /\ ~isNaN(parseFloat(component.targetAmount))
  /\ parseFloat(component.targetAmount).value > 0

\* the render called the calculator
Calculated ==
  /\ component.showCalculator
  /\ ~component.loading
  /\ Len(component.prices) > 0
  /\ AmountEntered

CalculatorThrew ==
  /\ Calculated
  /\ calculateBestTradingRoute(component.prices, parseFloat(component.targetAmount).value,
                               5, component.selectedBank).threw

C26_ComponentCatches ==
  Mounted =>
    /\ ~component.escaped
    /\ component.view # "crashed"
    /\ CalculatorThrew =>
         /\ component.calculationResult = Null
         /\ component.view = "unable"
    /\ component.calculationResult # Null => Calculated
    /\ component.view = "result" <=> component.calculationResult # Null

\* the calculator threw for a bank that matches no offer of the new prices
C26_Witness ==
  /\ Mounted
  /\ CalculatorThrew
  /\ component.selectedBank # << >>
  /\ Len(filterByBank(component.prices, component.selectedBank)) = 0
  /\ component.view = "unable"

(***************************************************************************)
(* C27: retryRequest invokes requestFn at most maxRetries times in total;  *)
(* it returns the value of the first successful attempt without invoking   *)
(* requestFn again; if all maxRetries attempts fail it throws the error of *)
(* the last attempt; and a new attempt starts only after the previous one  *)
(* has failed.                                                             *)
(***************************************************************************)
Retrying == retry.pc # "idle"

RetryCounts ==
  Retrying =>
    /\ retry.calls <= retry.maxRetries
    /\ retry.pending <= 1
    /\ retry.calls = Len(retry.failures) + retry.pending
                       + (IF retry.pc = "returned" THEN 1 ELSE 0)
    /\ retry.pc = "returned" => retry.value \in RequestValues
    /\ retry.pc = "thrown" =>
         /\ Len(retry.failures) = retry.maxRetries
         /\ retry.thrown = retry.failures[retry.maxRetries]
    /\ Len(retry.failures) = retry.maxRetries => retry.pc = "thrown"

\* once it has returned or thrown, requestFn is not invoked again
RetryEnds == retry.pc \in {"returned", "thrown"} => retry' = retry

C27_Retry == []RetryCounts /\ [][RetryEnds]_vars

\* with the default of two attempts: the first failed, the second failed
\* with another error, and that one was thrown
C27_Witness ==
  /\ retry.pc = "thrown"
  /\ retry.maxRetries = 2
  /\ retry.calls = 2
  /\ retry.failures[1] # retry.failures[2]

(***************************************************************************)
(* C28: when the client calls fetchP2PPrices with tradeType BUY and the    *)
(* request goes through the /api/p2p route, the search request sent to     *)
(* Binance carries tradeType SELL; for a client tradeType SELL it carries  *)
(* BUY.                                                                    *)
(***************************************************************************)
SearchSent == proxy.pc # "idle" /\ proxy.search # Null

C28_TradeTypeAtBinance ==
  SearchSent =>
    /\ proxy.tradeType = "BUY" => proxy.search.tradeType = "SELL"
    /\ proxy.tradeType = "SELL" => proxy.search.tradeType = "BUY"

(***************************************************************************)
(* C29: after any single run of fetchData completes, loading is false, and *)
(* error is non-null if and only if the all-prices, buy and sell lists     *)
(* obtained by that run are all empty; the failure of one or two of the    *)
(* three requests never sets error while one of these lists is non-empty,  *)
(* and the lists of the requests that succeeded are stored.                *)
(***************************************************************************)
\* run r completes in this step
Completes(r) == p2pData.runs[r].pc = "best" /\ p2pData'.runs[r].pc = "done"

AfterRun(r) ==
  LET run == p2pData'.runs[r]
      empty == run.allPrices = << >> /\ run.buySellData.buy = << >>
                 /\ run.buySellData.sell = << >>
  IN /\ p2pData'.loading = FALSE
     /\ p2pData'.error # Null <=> empty
     /\ p2pData'.prices = run.allPrices
     /\ p2pData'.buyPrices = run.buySellData.buy
     /\ p2pData'.sellPrices = run.buySellData.sell
     /\ "allPrices" \in run.failed => p2pData'.prices = << >>
     /\ "buySell" \in run.failed => p2pData'.buyPrices = << >> /\ p2pData'.sellPrices = << >>

C29_AfterRun == [][\A r \in Runs : Completes(r) => AfterRun(r)]_vars

\* a completed run whose first and last requests failed and whose second
\* brought a buy list only: no error, and the buy list is stored
C29_Witness ==
  /\ p2pData.mounted
  /\ \E r \in Runs :
       /\ p2pData.runs[r].pc = "done"
       /\ p2pData.runs[r].failed = {"allPrices", "best"}
       /\ p2pData.runs[r].buySellData.buy # << >>
       /\ p2pData.runs[r].buySellData.sell = << >>
       /\ p2pData.buyPrices = p2pData.runs[r].buySellData.buy
  /\ p2pData.error = Null
  /\ ~p2pData.loading

(***************************************************************************)
(* C30: when runs of fetchData overlap, loading is true in every state in  *)
(* which at least one run of fetchData has not yet completed.              *)
(***************************************************************************)
InFlight(r) == p2pData.runs[r].pc \notin {"idle", "done"}

C30_LoadingWhileInFlight ==
  p2pData.mounted => ((\E r \in Runs : InFlight(r)) => p2pData.loading)

====
